---- MODULE Spec2Model ----
\* A model of the two production-chain planners, Builder.py and Builder2.py:
\* product classification, the flow-balance LP they hand to PuLP, the plan
\* report and the recursive chain tracers (print_chain, trace_production).
\* Rates are exact rationals <<numerator, denominator>>; the scripts use
\* Python floats, whose rounding is not modelled.
EXTENDS Integers, Sequences, FiniteSets, TLC

VARIABLES script, recipes, target_product, target_min_production,
          produced_products, consumed_products, raw_materials,
          constraints, objective, status, x, plan, produced_by,
          stack, visited, chain, calls, unused_resources, pc

vars == <<script, recipes, target_product, target_min_production,
          produced_products, consumed_products, raw_materials,
          constraints, objective, status, x, plan, produced_by,
          stack, visited, chain, calls, unused_resources, pc>>

\* ------------------------------------------------------------------ bounds
\* Largest machine level the solver hands back in the model.
MaxLevel == 2
\* Python's recursion limit (1000 by default), scaled down.
RecursionLimit == 6

\* ------------------------------------------------------------ input family
Scripts == {"Builder", "Builder2"}
Products == {"A", "B", "T"}
OutRates == {0, 1, 2}
IngRates == {1, 2}
\* The first recipe may have two ingredients, the second at most one.
FirstIngredientSizes == {0, 1, 2}
SecondIngredientSizes == {0, 1}
\* Iteration order of a dict's keys: the cells list products in this order.
ProductOrder == <<"A", "B", "C", "T">>

\* ---------------------------------------------------------------- helpers
RECURSIVE GCD(_, _)
GCD(a, b) == IF b = 0 THEN a ELSE GCD(b, a % b)

\* A rational in lowest terms.
Rat(n, d) == LET g == GCD(n, d) IN IF n = 0 THEN <<0, 1>> ELSE <<n \div g, d \div g>>
RatInt(n) == <<n, 1>>
RatMul(a, b) == Rat(a[1] * b[1], a[2] * b[2])
RatDiv(a, b) == Rat(a[1] * b[2], a[2] * b[1])

Keys(f) == SelectSeq(ProductOrder, LAMBDA p : p \in DOMAIN f)

RECURSIVE SumSeq(_)
SumSeq(s) == IF s = <<>> THEN 0 ELSE Head(s) + SumSeq(Tail(s))

RecipeIds(recs) == 1..Len(recs)

\* ----------------------------------------------------------- classification
ProducedProducts(recs) == UNION {DOMAIN recs[r].outputs : r \in RecipeIds(recs)}
ConsumedProducts(recs) == UNION {DOMAIN recs[r].ingredients : r \in RecipeIds(recs)}
\* Variant: the produced products are not subtracted.
RawMaterialsBroken(recs) == ConsumedProducts(recs)
RawMaterials(recs) == ConsumedProducts(recs) \ ProducedProducts(recs)
all_products == produced_products \cup consumed_products

\* ------------------------------------------------------------- LP model
\* Builder.py leaves the raw supply limits empty.
\* Variant: the sample limit of the comment filled in.
available_raw_sample == ("A" :> 1)
available_raw == <<>>

\* The terms one product's flow collects, recipe by recipe.
RECURSIVE FlowTerms(_, _, _)
FlowTerms(recs, product, i) ==
    IF i > Len(recs) THEN <<>>
    ELSE (IF product \in DOMAIN recs[i].outputs
             THEN << <<i, recs[i].outputs[product]>> >> ELSE <<>>)
         \o (IF product \in DOMAIN recs[i].ingredients
             THEN << <<i, 0 - recs[i].ingredients[product]>> >> ELSE <<>>)
         \o FlowTerms(recs, product, i + 1)

\* Variant: both scripts let the target run a surplus.
FlowSenseRelaxed(scr, product, tgt) == IF product = tgt THEN ">=" ELSE "=="
FlowSense(scr, product, tgt) ==
    IF scr = "Builder" /\ product = tgt THEN ">=" ELSE "=="

FlowBalance(scr, recs, product, tgt, tmin) ==
    [name  |-> <<"flow_balance", product>>,
     terms |-> FlowTerms(recs, product, 1),
     sense |-> FlowSense(scr, product, tgt),
     rhs   |-> IF product = tgt THEN tmin ELSE 0]

RECURSIVE ConsumptionTerms(_, _, _)
ConsumptionTerms(recs, product, i) ==
    IF i > Len(recs) THEN <<>>
    ELSE (IF product \in DOMAIN recs[i].ingredients
             THEN << <<i, recs[i].ingredients[product]>> >> ELSE <<>>)
         \o ConsumptionTerms(recs, product, i + 1)

RawSupply(recs, product) ==
    [name  |-> <<"raw_supply", product>>,
     terms |-> ConsumptionTerms(recs, product, 1),
     sense |-> "<=",
     rhs   |-> available_raw[product]]

\* Builder.py walks all_products and skips the raw ones; Builder2.py walks
\* produced_products and has no raw supply constraints.
ModelConstraints(scr, recs, tgt, tmin) ==
    LET produced == ProducedProducts(recs)
        raw      == RawMaterials(recs)
        flowOver == IF scr = "Builder"
                       THEN (produced \cup ConsumedProducts(recs)) \ raw
                       ELSE produced
    IN  {FlowBalance(scr, recs, p, tgt, tmin) : p \in flowOver}
        \cup (IF scr = "Builder"
                 THEN {RawSupply(recs, p) : p \in raw \cap DOMAIN available_raw}
                 ELSE {})

RECURSIVE ObjectiveTerms(_, _, _)
ObjectiveTerms(recs, tgt, i) ==
    IF i > Len(recs) THEN <<>>
    ELSE << <<i, IF tgt \in DOMAIN recs[i].outputs
                    THEN recs[i].outputs[tgt] ELSE 0>> >>
         \o ObjectiveTerms(recs, tgt, i + 1)

\* lpSum of terms at the level assignment v.
RECURSIVE Lhs(_, _)
Lhs(terms, v) ==
    IF terms = <<>> THEN 0
    ELSE Head(terms)[2] * v[Head(terms)[1]] + Lhs(Tail(terms), v)

Compare(sense, l, r) ==
    CASE sense = "==" -> l = r
      [] sense = ">=" -> l >= r
      [] sense = "<=" -> l <= r

\* Whether the assignment v * n / d meets constraint c.
SatisfiesScaled(c, v, n, d) == Compare(c.sense, n * Lhs(c.terms, v), d * c.rhs)

Satisfies(c, v) == SatisfiesScaled(c, v, 1, 1)
Feasible(cs, v) == \A c \in cs : Satisfies(c, v)

\* ------------------------------------------------------------ LP solver
\* PuLP's solve(): the levels it can hand back are 0..MaxLevel; rational
\* solutions w * n / d are searched to classify the problem.
Levels(recs) == [RecipeIds(recs) -> 0..MaxLevel]
Scales == 1..(2 * MaxLevel)
ZeroLevels(recs) == [r \in RecipeIds(recs) |-> 0]

IsRay(cs, d) == \A c \in cs : SatisfiesScaled(c, d, 1, 0)
ImprovingRay(cs, obj, recs) ==
    \E d \in Levels(recs) : IsRay(cs, d) /\ Lhs(obj, d) > 0
\* The rational solutions w * n / d of the constraints, n / d in lowest terms.
ScalePairs == {q \in Scales \X Scales : GCD(q[1], q[2]) = 1}
RealSolutions(cs, recs) ==
    UNION {LET l == [c \in cs |-> Lhs(c.terms, w)]
           IN  {<<w, q[1], q[2]>> : q \in
                   {q \in ScalePairs :
                       \A c \in cs : Compare(c.sense, q[1] * l[c], q[2] * c.rhs)}}
           : w \in Levels(recs)}
\* The objective values n / d the rational solutions reach.
ObjectiveValues(obj, sols) == {<<s[2] * Lhs(obj, s[1]), s[3]>> : s \in sols}
IsOptimal(cs, obj, vals, v) ==
    /\ Feasible(cs, v)
    /\ \A q \in {Lhs(obj, v)} : \A s \in vals : s[1] <= s[2] * q

\* The (status, values) pairs solve() can leave behind. Values left by a
\* solve that did not end optimal are whatever the solver stopped at; a
\* solve that never ran leaves every varValue unset (None, read as 0).
OutcomesWith(st, vs) == {[status |-> st, values |-> v] : v \in vs}
OutcomesGiven(cs, obj, recs, vals, ray) ==
    (IF vals = {} THEN OutcomesWith("Infeasible", Levels(recs))
     ELSE IF ray THEN OutcomesWith("Unbounded", Levels(recs))
     ELSE OutcomesWith("Optimal",
                       {v \in Levels(recs) : IsOptimal(cs, obj, vals, v)}))
    \cup OutcomesWith("Not Solved", {ZeroLevels(recs)})
SolverOutcomes(cs, obj, recs) ==
    UNION {OutcomesGiven(cs, obj, recs, vals, ray) :
              vals \in {ObjectiveValues(obj, RealSolutions(cs, recs))},
              ray \in {ImprovingRay(cs, obj, recs)}}

\* ------------------------------------------------------------- reporting
\* Recipes with a level above 0, in recipe order, with their output rates.
RECURSIVE PlanLines(_, _, _)
PlanLines(recs, v, i) ==
    IF i > Len(recs) THEN <<>>
    ELSE (IF v[i] > 0
             THEN << [recipe |-> i, level |-> v[i],
                      outs |-> [p \in DOMAIN recs[i].outputs |->
                                   v[i] * recs[i].outputs[p]]] >>
             ELSE <<>>)
         \o PlanLines(recs, v, i + 1)

\* Builder.py: the first recipe with a level above 0 that makes the product.
ActiveProducers(recs, v, product) ==
    {r \in RecipeIds(recs) : v[r] > 0 /\ product \in DOMAIN recs[r].outputs}
ProducedBy(recs, v) ==
    [p \in {q \in ProducedProducts(recs) : ActiveProducers(recs, v, q) # {}} |->
        CHOOSE r \in ActiveProducers(recs, v, p) :
            \A s \in ActiveProducers(recs, v, p) : r <= s]

TargetProduction(recs, v, tgt) ==
    SumSeq([i \in 1..Len(recs) |->
               IF tgt \in DOMAIN recs[i].outputs
                  THEN recs[i].outputs[tgt] * v[i] ELSE 0])

\* Builder2.py: products produced in excess of their consumption.
UnusedResources(recs, v) ==
    LET made(p) == SumSeq([i \in 1..Len(recs) |->
                      IF p \in DOMAIN recs[i].outputs
                         THEN v[i] * recs[i].outputs[p] ELSE 0])
        used(p) == SumSeq([i \in 1..Len(recs) |->
                      IF p \in DOMAIN recs[i].ingredients
                         THEN v[i] * recs[i].ingredients[p] ELSE 0])
        over    == {p \in ProducedProducts(recs) : made(p) > used(p)}
    IN  [p \in over |-> made(p) - used(p)]

\* --------------------------------------------------------- chain tracers
NoRate == <<0, 0>>

\* scale factor of a recipe whose output rate is output_rate.
Scale(required, output_rate) ==
    IF output_rate > 0 THEN RatDiv(required, RatInt(output_rate))
    ELSE RatInt(0)

\* required amount of an ingredient: ing_rate * x_val * scale.
\* Variant: the recipe's level is left out of the product.
IngRequiredNoLevel(ing_rate, x_val, scale) == RatMul(RatInt(ing_rate), scale)
IngRequired(ing_rate, x_val, scale) ==
    RatMul(RatInt(ing_rate * x_val), scale)

\* Builder2.py: every recipe with the product among its outputs, in order.
\* Variant: the loop stops after the first producing recipe.
ProducingRecipesFirst(recs, product) ==
    LET all == SelectSeq([i \in 1..Len(recs) |-> i],
                         LAMBDA r : product \in DOMAIN recs[r].outputs)
    IN  IF all = <<>> THEN <<>> ELSE <<Head(all)>>
ProducingRecipes(recs, product) ==
    SelectSeq([i \in 1..Len(recs) |-> i],
              LAMBDA r : product \in DOMAIN recs[r].outputs)

Line(kind, product, rate, level, recipe, indent, call) ==
    [kind |-> kind, product |-> product, rate |-> rate, level |-> level,
     recipe |-> recipe, indent |-> indent, call |-> call]

Frame(call, product, required, indent, todo, cur, scale, ings) ==
    [call |-> call, product |-> product, required |-> required,
     indent |-> indent, todo |-> todo, cur |-> cur, scale |-> scale,
     ings |-> ings]

\* What a call does on entry, given the stack it is made from: the lines it
\* prints, the frame it stays in (or none when it returns at once), the
\* visited set it leaves. A call made at the recursion limit raises.
Result(st, vis, lines, next) ==
    [stack |-> st, visited |-> vis, lines |-> lines, pc |-> next]

MachineLine(recs, v, r, product, required, indent, call) ==
    LET output_rate == recs[r].outputs[product] * v[r]
        scale       == Scale(required, output_rate)
    IN  Line("machine", product, RatMul(RatInt(output_rate), scale),
             RatMul(RatInt(v[r]), scale), r, indent, call)

\* Builder.py print_chain(product, required_amount, indent).
print_chain(st, product, required, indent, call) ==
    IF Len(st) >= RecursionLimit
    THEN Result(st, visited, <<>>, "RecursionError")
    ELSE IF product \in raw_materials
    THEN Result(st, visited,
                <<Line("raw", product, required, NoRate, 0, indent, call)>>,
                "tracing")
    ELSE IF product \in DOMAIN produced_by
    THEN LET rec   == produced_by[product]
             scale == Scale(required, recipes[rec].outputs[product] * x[rec])
         IN  Result(Append(st, Frame(call, product, required, indent, <<>>,
                                     rec, scale, Keys(recipes[rec].ingredients))),
                    visited,
                    <<MachineLine(recipes, x, rec, product, required, indent, call)>>,
                    "tracing")
    ELSE Result(st, visited,
                <<Line("external", product, required, NoRate, 0, indent, call)>>,
                "tracing")

\* Builder2.py trace_production(product, required_amount, indent, visited),
\* up to the head of its loop over producing_recipes.
trace_production(st, product, required, indent, call) ==
    IF Len(st) >= RecursionLimit
    THEN Result(st, visited, <<>>, "RecursionError")
    ELSE IF product \in visited
    THEN Result(st, visited,
                <<Line("cycle", product, NoRate, NoRate, 0, indent, call)>>,
                "tracing")
    ELSE IF product \in raw_materials
    THEN Result(st, visited \cup {product},
                <<Line("raw", product, required, NoRate, 0, indent, call)>>,
                "tracing")
    ELSE IF ProducingRecipes(recipes, product) = <<>>
    THEN Result(st, visited \cup {product},
                <<Line("norecipe", product, NoRate, NoRate, 0, indent, call)>>,
                "tracing")
    ELSE Result(Append(st, Frame(call, product, required, indent,
                                 ProducingRecipes(recipes, product),
                                 0, RatInt(0), <<>>)),
                visited \cup {product}, <<>>, "tracing")

Call(st, product, required, indent, call) ==
    IF script = "Builder" THEN print_chain(st, product, required, indent, call)
    ELSE trace_production(st, product, required, indent, call)

\* ------------------------------------------------------------ the inputs
PartialMaps(S, R, sizes) ==
    UNION {[D -> R] : D \in {E \in SUBSET S : Cardinality(E) \in sizes}}

Recipe(outs, ings) == [outputs |-> outs, ingredients |-> ings]

\* One output per recipe; the ingredients of a recipe share one rate.
IngredientMaps(sizes) ==
    {f \in PartialMaps(Products, IngRates, sizes) :
        \A p \in DOMAIN f, q \in DOMAIN f : f[p] = f[q]}
RecipeFamily(sizes) ==
    {Recipe(o, i) : o \in PartialMaps(Products, OutRates, {1}),
                    i \in IngredientMaps(sizes)}

\* Scenario 1 of the design's testable properties: A -> B, B -> C.
Scenario1 ==
    [recipes |-> <<Recipe("B" :> 10, "A" :> 10), Recipe("C" :> 5, "B" :> 10)>>,
     target |-> "C", min |-> 5]

\* A raw material shared by two ingredients' sub-chains.
SharedRaw ==
    [recipes |-> <<Recipe("T" :> 1, ("A" :> 1) @@ ("B" :> 2)),
                   Recipe("B" :> 2, "A" :> 1)>>,
     target |-> "T", min |-> 1]

\* Scenario 5: two recipes making the target, one with a by-product the
\* other consumes.
TwoProducers ==
    [recipes |-> <<Recipe(("T" :> 1) @@ ("B" :> 1), "A" :> 1),
                   Recipe("T" :> 1, ("A" :> 2) @@ ("B" :> 1))>>,
     target |-> "T", min |-> 2]

Inputs ==
    {[recipes |-> <<r1, r2>>, target |-> "T", min |-> 1] :
        r1 \in RecipeFamily(FirstIngredientSizes),
        r2 \in RecipeFamily(SecondIngredientSizes)}
    \cup {Scenario1, SharedRaw, TwoProducers}

\* Builder2.py drops the rows without ingredients while loading.
Loadable(scr, recs) ==
    scr = "Builder2" => \A r \in RecipeIds(recs) : recs[r].ingredients # <<>>

\* ---------------------------------------------------------------- actions
Init ==
    /\ script \in Scripts
    /\ \E in \in Inputs :
          /\ Loadable(script, in.recipes)
          /\ recipes = in.recipes
          /\ target_product = in.target
          /\ target_min_production = in.min
    /\ produced_products = {}
    /\ consumed_products = {}
    /\ raw_materials = {}
    /\ constraints = {}
    /\ objective = <<>>
    /\ status = "Not Solved"
    /\ x = ZeroLevels(recipes)
    /\ plan = <<>>
    /\ produced_by = <<>>
    /\ stack = <<>>
    /\ visited = {}
    /\ chain = <<>>
    /\ calls = <<>>
    /\ unused_resources = <<>>
    /\ pc = "classify"

\* Builder.py 80-85, Builder2.py 77-79.
Classify ==
    /\ pc = "classify"
    /\ produced_products' = ProducedProducts(recipes)
    /\ consumed_products' = ConsumedProducts(recipes)
    /\ raw_materials' = RawMaterials(recipes)
    /\ pc' = "compile"
    /\ UNCHANGED <<script, recipes, target_product, target_min_production,
                   constraints, objective, status, x, plan, produced_by,
                   stack, visited, chain, calls, unused_resources>>

\* Builder.py 107-138, Builder2.py 85-101.
Compile ==
    /\ pc = "compile"
    /\ constraints' = ModelConstraints(script, recipes, target_product,
                                       target_min_production)
    /\ objective' = ObjectiveTerms(recipes, target_product, 1)
    /\ pc' = "solve"
    /\ UNCHANGED <<script, recipes, target_product, target_min_production,
                   produced_products, consumed_products, raw_materials,
                   status, x, plan, produced_by,
                   stack, visited, chain, calls, unused_resources>>

\* model.solve()
Solve ==
    /\ pc = "solve"
    /\ \E o \in SolverOutcomes(constraints, objective, recipes) :
          /\ status' = o.status
          /\ x' = o.values
    /\ pc' = "report"
    /\ UNCHANGED <<script, recipes, target_product, target_min_production,
                   produced_products, consumed_products, raw_materials,
                   constraints, objective, plan, produced_by,
                   stack, visited, chain, calls, unused_resources>>

\* The status line and the machine plan; Builder.py also annotates the
\* recipes with their levels and builds produced_by. Neither script looks
\* at the status before going on.
Report ==
    /\ pc = "report"
    /\ plan' = PlanLines(recipes, x, 1)
    /\ produced_by' = IF script = "Builder" THEN ProducedBy(recipes, x) ELSE <<>>
    /\ pc' = "trace"
    /\ UNCHANGED <<script, recipes, target_product, target_min_production,
                   produced_products, consumed_products, raw_materials,
                   constraints, objective, status, x,
                   stack, visited, chain, calls, unused_resources>>

CallRecord(product, required, parent, via) ==
    [product |-> product, required |-> required, parent |-> parent, via |-> via]

\* The required amount of the top-level call: Builder.py passes the
\* target's solved production, Builder2.py the requested minimum.
TopRequired ==
    IF script = "Builder"
    THEN RatInt(TargetProduction(recipes, x, target_product))
    ELSE RatInt(target_min_production)

Apply(r, call) ==
    /\ stack' = r.stack
    /\ visited' = r.visited
    /\ chain' = chain \o r.lines
    /\ pc' = r.pc
    /\ calls' = IF r.pc = "RecursionError" THEN calls ELSE Append(calls, call)

\* print_chain(target_product, target_production) /
\* trace_production(target_product, target_min_production)
TraceBegin ==
    /\ pc = "trace"
    /\ Apply(Call(<<>>, target_product, TopRequired, 0, 1),
             CallRecord(target_product, TopRequired, 0, 0))
    /\ UNCHANGED <<script, recipes, target_product, target_min_production,
                   produced_products, consumed_products, raw_materials,
                   constraints, objective, status, x, plan, produced_by,
                   unused_resources>>

\* One step of the innermost call: the next ingredient's recursive call,
\* the next producing recipe of the loop, or the return.
TraceStep ==
    /\ pc = "tracing"
    /\ stack # <<>>
    /\ LET n    == Len(stack)
           f    == stack[n]
           rest == SubSeq(stack, 1, n - 1)
       IN  IF f.ings # <<>>
           THEN LET ing  == Head(f.ings)
                    req  == IngRequired(recipes[f.cur].ingredients[ing],
                                        x[f.cur], f.scale)
                    here == Append(rest, [f EXCEPT !.ings = Tail(f.ings)])
                IN  Apply(Call(here, ing, req, f.indent + 4, Len(calls) + 1),
                          CallRecord(ing, req, f.call, f.cur))
           ELSE IF f.todo # <<>>
           THEN LET r == Head(f.todo)
                IN  IF x[r] > 0
                    THEN /\ stack' = Append(rest,
                               [f EXCEPT !.todo = Tail(f.todo), !.cur = r,
                                  !.scale = Scale(f.required,
                                      recipes[r].outputs[f.product] * x[r]),
                                  !.ings = Keys(recipes[r].ingredients)])
                         /\ chain' = Append(chain,
                               MachineLine(recipes, x, r, f.product,
                                           f.required, f.indent, f.call))
                         /\ UNCHANGED <<visited, calls, pc>>
                    ELSE /\ stack' = Append(rest, [f EXCEPT !.todo = Tail(f.todo)])
                         /\ UNCHANGED <<visited, chain, calls, pc>>
           ELSE /\ stack' = rest
                /\ visited' = IF script = "Builder2"
                                 THEN visited \ {f.product} ELSE visited
                /\ UNCHANGED <<chain, calls, pc>>
    /\ UNCHANGED <<script, recipes, target_product, target_min_production,
                   produced_products, consumed_products, raw_materials,
                   constraints, objective, status, x, plan, produced_by,
                   unused_resources>>

\* The top-level call has returned; Builder2.py goes on to its summary and
\* its unused resources.
TraceEnd ==
    /\ pc = "tracing"
    /\ stack = <<>>
    /\ unused_resources' = IF script = "Builder2"
                              THEN UnusedResources(recipes, x) ELSE <<>>
    /\ pc' = "done"
    /\ UNCHANGED <<script, recipes, target_product, target_min_production,
                   produced_products, consumed_products, raw_materials,
                   constraints, objective, status, x, plan, produced_by,
                   stack, visited, chain, calls>>

Next == Classify \/ Compile \/ Solve \/ Report \/ TraceBegin \/ TraceStep \/ TraceEnd

Spec == Init /\ [][Next]_vars

\* ================================================================ claims
Solved == pc \in {"report", "trace", "tracing", "done", "RecursionError"}
CallIds == 1..Len(calls)
LineIds == 1..Len(chain)
LinesOf(i) == {k \in LineIds : chain[k].call = i}
ChildrenOf(i, r) == {j \in CallIds : calls[j].parent = i /\ calls[j].via = r}

\* The products of the calls that are still open above call i.
RECURSIVE PathProducts(_)
PathProducts(i) ==
    IF calls[i].parent = 0 THEN {}
    ELSE {calls[calls[i].parent].product} \cup PathProducts(calls[i].parent)

\* Total production minus total consumption of product p at levels v.
NetFlow(p, v) ==
    SumSeq([i \in 1..Len(recipes) |->
               v[i] * ((IF p \in DOMAIN recipes[i].outputs
                           THEN recipes[i].outputs[p] ELSE 0)
                       - (IF p \in DOMAIN recipes[i].ingredients
                             THEN recipes[i].ingredients[p] ELSE 0))])

\* C1: chain tracing always terminates: neither tracer runs into unbounded
\* recursion (Python's RecursionError), whatever the recipes and levels,
\* active cycles included.
C1_TracingTerminates == pc # "RecursionError"

\* C2: in trace_production a cycle notice is printed for a product only
\* when that product is on the current recursion path, and a raw material
\* is always reported as a raw-material leaf with its required rate.
C2_CycleGuardIsPathScoped ==
    (script = "Builder2" /\ pc = "done") =>
        /\ \A k \in LineIds :
              chain[k].kind = "cycle" =>
                  chain[k].product \in PathProducts(chain[k].call)
        /\ \A i \in CallIds :
              calls[i].product \in raw_materials =>
                  \E k \in LinesOf(i) : /\ chain[k].kind = "raw"
                                        /\ chain[k].rate = calls[i].required

\* C4: a status other than Optimal is terminal: no plan line and no chain
\* trace is produced from the solver's values.
C4_NonOptimalIsTerminal ==
    (Solved /\ status # "Optimal") =>
        /\ plan = <<>>
        /\ chain = <<>>
        /\ calls = <<>>
        /\ pc \notin {"tracing", "done", "RecursionError"}

\* C6: every trace call prints at least one line, and a call on a product
\* that is not raw, not on the current path and has no producing recipe
\* with a level above 0 prints the externally-supplied leaf.
C6_EveryCallHasFallback ==
    pc = "done" =>
        \A i \in CallIds :
            /\ LinesOf(i) # {}
            /\ (/\ calls[i].product \notin raw_materials
                /\ calls[i].product \notin PathProducts(i)
                /\ ActiveProducers(recipes, x, calls[i].product) = {})
               => \E k \in LinesOf(i) : chain[k].kind \in {"norecipe", "external"}

\* The assignments the design's flow model accepts: every produced product
\* other than the target balanced, the target at or above the minimum.
ClaimFeasible(v) ==
    \A p \in produced_products :
        IF p = target_product THEN NetFlow(p, v) >= target_min_production
        ELSE NetFlow(p, v) = 0

\* C3: the compiled model accepts exactly the level assignments with every
\* produced product other than the target balanced and the target's net
\* flow at or above target_min_production, in both scripts.
C3_FeasibleSetIsBalancedWithSurplus ==
    pc = "solve" =>
        \A v \in Levels(recipes) : Feasible(constraints, v) <=> ClaimFeasible(v)

\* A call that got past the leaf cases.
Expanded(i) ==
    \A k \in LinesOf(i) : chain[k].kind = "machine"
MachineLinesOf(i, r) ==
    {k \in LinesOf(i) : chain[k].kind = "machine" /\ chain[k].recipe = r}

\* Recipe r is visited by call i: one machine line, and one recursive call
\* per ingredient, scaled from the call's full required amount.
VisitedBy(i, r) ==
    LET p     == calls[i].product
        scale == Scale(calls[i].required, recipes[r].outputs[p] * x[r])
    IN  /\ Cardinality(MachineLinesOf(i, r)) = 1
        /\ \A ing \in DOMAIN recipes[r].ingredients :
              /\ Cardinality({j \in ChildrenOf(i, r) : calls[j].product = ing}) = 1
              /\ \A j \in ChildrenOf(i, r) :
                    calls[j].product = ing =>
                        calls[j].required =
                            RatMul(RatInt(recipes[r].ingredients[ing] * x[r]), scale)
NotVisitedBy(i, r) == MachineLinesOf(i, r) = {} /\ ChildrenOf(i, r) = {}

AllActiveVisited(i) ==
    \A r \in RecipeIds(recipes) :
        IF r \in ActiveProducers(recipes, x, calls[i].product)
        THEN VisitedBy(i, r) ELSE NotVisitedBy(i, r)
FirstActiveVisited(i) ==
    LET act == ActiveProducers(recipes, x, calls[i].product)
    IN  \A r \in RecipeIds(recipes) :
            IF r \in act /\ \A q \in act : r <= q
            THEN VisitedBy(i, r) ELSE NotVisitedBy(i, r)

\* C5 as claimed: whichever tracer runs, a finished trace has visited every
\* recipe with a level above 0 that makes the product of an expanded call.
C5_EveryActiveProducerVisited ==
    pc = "done" =>
        \A i \in CallIds :
            (Expanded(i) /\ calls[i].product \notin raw_materials)
                => AllActiveVisited(i)

\* C5 as amended: trace_production visits every active producer of the
\* product, each scaled from the full required amount; print_chain visits
\* only the first active producer in recipe order (produced_by).
C5_ProducersVisitedPerScript ==
    pc = "done" =>
        \A i \in CallIds :
            (Expanded(i) /\ calls[i].product \notin raw_materials)
                => IF script = "Builder2" THEN AllActiveVisited(i)
                   ELSE FirstActiveVisited(i)

C5_Witness ==
    /\ pc = "done"
    /\ script = "Builder2"
    /\ status = "Optimal"
    /\ \E i \in CallIds :
          /\ Expanded(i)
          /\ Cardinality(ActiveProducers(recipes, x, calls[i].product)) = 2
          /\ Cardinality(LinesOf(i)) = 2

\* C7: a visited recipe with a positive produced rate is reported at exactly
\* the required rate and each ingredient is traced at
\* ing_rate * required / outputs[r][product], whatever the level; with a
\* produced rate of 0 everything is traced at 0; no rate has a zero
\* denominator.
C7_ScaledRates ==
    pc \in {"done", "RecursionError"} =>
    /\ \A k \in LineIds :
          chain[k].kind = "machine" =>
              LET r == chain[k].recipe
                  o == recipes[r].outputs[chain[k].product]
              IN  /\ x[r] > 0
                  /\ chain[k].rate[2] > 0
                  /\ chain[k].rate = IF o * x[r] > 0
                                        THEN calls[chain[k].call].required
                                        ELSE <<0, 1>>
    /\ \A j \in CallIds :
          /\ calls[j].required[2] > 0
          /\ calls[j].parent # 0 =>
                LET r   == calls[j].via
                    par == calls[calls[j].parent]
                    o   == recipes[r].outputs[par.product]
                    c   == recipes[r].ingredients[calls[j].product]
                IN  calls[j].required =
                        IF o * x[r] > 0
                           THEN Rat(c * par.required[1], o * par.required[2])
                           ELSE <<0, 1>>

C7_Witness ==
    pc = "done" /\ \E j \in CallIds :
        /\ calls[j].parent # 0
        /\ x[calls[j].via] = 2
        /\ recipes[calls[j].via].outputs[calls[calls[j].parent].product] = 2
        /\ recipes[calls[j].via].ingredients[calls[j].product] = 1
        /\ calls[j].required = <<1, 2>>

IsScenario1 ==
    /\ recipes = Scenario1.recipes
    /\ target_product = Scenario1.target
    /\ target_min_production = Scenario1.min
RawLines == {k \in LineIds : chain[k].kind = "raw"}

\* C8 as claimed: in Scenario 1 the solve ends optimal with level 1 for
\* both recipes.
C8_Scenario1Optimal ==
    (IsScenario1 /\ Solved /\ status # "Not Solved") =>
        status = "Optimal" /\ x = <<1, 1>>

\* C8 as amended: in Scenario 1 A is the only raw material and level 1 for
\* both recipes is feasible; it is the only feasible assignment, and the
\* optimum, of Builder2.py's model; Builder.py's model also accepts every
\* multiple of it, with the target rate growing, and is unbounded; the
\* trace from C at levels 1, 1 reports A as the only raw-material leaf, at
\* 10/min.
C8_Scenario1PerScript ==
    IsScenario1 =>
        /\ pc # "classify" => raw_materials = {"A"}
        /\ pc = "solve" =>
              /\ Feasible(constraints, <<1, 1>>)
              /\ script = "Builder2" =>
                    \A v \in Levels(recipes) :
                        Feasible(constraints, v) => v = <<1, 1>>
              /\ script = "Builder" =>
                    \A k \in 1..MaxLevel :
                        /\ Feasible(constraints, <<k, k>>)
                        /\ Lhs(objective, <<k, k>>) = 5 * k
        /\ (Solved /\ status # "Not Solved") =>
              IF script = "Builder2" THEN status = "Optimal" /\ x = <<1, 1>>
              ELSE status = "Unbounded"
        /\ (pc = "done" /\ x = <<1, 1>>) =>
              /\ Cardinality(RawLines) = 1
              /\ \A k \in RawLines : /\ chain[k].product = "A"
                                     /\ chain[k].rate = <<10, 1>>

C8_Witness ==
    /\ IsScenario1
    /\ script = "Builder2"
    /\ status = "Optimal"
    /\ pc = "done"
    /\ \E k \in LineIds : chain[k].kind = "raw"

\* C9: the raw materials are exactly the products some recipe consumes and
\* no recipe produces; raw and produced are disjoint, every consumed product
\* is raw or produced, and the levels play no part (a product all of whose
\* recipes are at level 0 is still produced).
C9_RawClassification ==
    pc # "classify" =>
        /\ \A p \in Products \cup {"C"} :
              p \in raw_materials <=>
                  /\ \E r \in RecipeIds(recipes) : p \in DOMAIN recipes[r].ingredients
                  /\ ~\E r \in RecipeIds(recipes) : p \in DOMAIN recipes[r].outputs
        /\ raw_materials \cap produced_products = {}
        /\ consumed_products \subseteq raw_materials \cup produced_products
        /\ \A r \in RecipeIds(recipes) :
              DOMAIN recipes[r].outputs \subseteq produced_products

C9_Witness ==
    /\ pc = "done"
    /\ raw_materials # {}
    /\ \E p \in produced_products :
          /\ p \in consumed_products
          /\ ActiveProducers(recipes, x, p) = {}

Multipliers == 1..(MaxLevel + 1)
Times(k, v) == [r \in DOMAIN v |-> k * v[r]]

\* C10: Builder.py's model without raw supply limits is closed under
\* scaling up, the target objective scaling along; so once some feasible
\* assignment makes the target at a positive rate the solve cannot end
\* optimal: the problem is unbounded.
C10_ScalingUnbounded ==
    script = "Builder" =>
        /\ pc = "solve" =>
              \A v \in Levels(recipes) :
                  Feasible(constraints, v) =>
                      \A k \in Multipliers :
                          /\ Feasible(constraints, Times(k, v))
                          /\ Lhs(objective, Times(k, v)) = k * Lhs(objective, v)
        /\ (/\ pc = "report"
            /\ status # "Not Solved"
            /\ \E v \in Levels(recipes) :
                  Feasible(constraints, v) /\ Lhs(objective, v) > 0)
              => status = "Unbounded"

C10_Witness ==
    /\ script = "Builder"
    /\ pc = "report"
    /\ status = "Unbounded"
    /\ raw_materials # {}
    /\ Feasible(constraints, x)
    /\ Lhs(objective, x) > 0

====
